---- MODULE Spec2Model ----
(***************************************************************************)
(* The address book of src/main.py: Field / Name / Phone value objects,    *)
(* Record (a name and a list of phones) and AddressBook (a UserDict keyed  *)
(* by name).                                                               *)
(*                                                                         *)
(* A Python str is a sequence of characters.  A character is written as a  *)
(* one-element token: "0" and "7" are ASCII digits, "a", "-" and " " are   *)
(* not digits, "U+0663" is ARABIC-INDIC DIGIT THREE and "U+00B2" is        *)
(* SUPERSCRIPT TWO.  Record objects live in a heap and are named by their  *)
(* reference (their index in the heap), so that two names for one object   *)
(* can be told from two objects with equal contents.                       *)
(***************************************************************************)
EXTENDS Integers, Sequences, FiniteSets

VARIABLES heap, data, last

vars == <<heap, data, last>>

---------------------------------------------------------------------------
(* Bounds of the model. *)

\* Entries a phone list may hold in RecordSpec.
MaxPhones == 3

\* Record and Phone objects the heap may hold in Spec.
MaxObjects == 3

---------------------------------------------------------------------------
(* Characters and strings. *)

\* len(value) != 10 at main.py:40
PhoneLen == 10

AsciiDigits == {"0", "7"}

\* Characters outside 0-9 for which str.isdigit() is True.
UnicodeDigits == {"U+0663", "U+00B2"}

NonDigits == {"a", "-", " "}

Alphabet == AsciiDigits \cup UnicodeDigits \cup NonDigits

Fill(c, n) == [i \in 1..n |-> c]

With(s, k, c) == [s EXCEPT ![k] = c]

\* str.isdigit(): every character is a digit and there is at least one.
isdigit(value) ==
    /\ Len(value) > 0
    /\ \A i \in 1..Len(value) : value[i] \in AsciiDigits \cup UnicodeDigits

\* The strings handed to Phone(...) directly.
PhoneInputs ==
    LET lens == {0, 1, PhoneLen - 1, PhoneLen, PhoneLen + 1}
    IN  {Fill(c, n) : c \in Alphabet, n \in lens}
        \cup UNION {{With(Fill("7", n), k, c) : c \in Alphabet, k \in {1, n}} :
                       n \in lens \ {0}}

PhoneA == Fill("7", PhoneLen)
PhoneB == Fill("0", PhoneLen)
PhoneU == With(PhoneA, PhoneLen, "U+0663")
TooShort == Fill("7", PhoneLen - 1)
WithLetter == With(PhoneA, 1, "a")

\* The strings handed to a record's phone operations in RecordSpec.
RawInputs == {PhoneA, PhoneB, PhoneU, TooShort, WithLetter}

\* The strings handed to a record's phone operations in Spec.
BookRawInputs == {PhoneA, PhoneU, TooShort}

Names == {"John", "Jane"}

NameInputs == Names \cup {""}

---------------------------------------------------------------------------
(* Value objects. *)

\* Name.__init__ raises ValueError
Name_raises(value) == value = ""

\* Phone.__init__ raises ValueError
Phone_raises(value) == (~isdigit(value)) \/ Len(value) # PhoneLen

---------------------------------------------------------------------------
(* The list of a record's phones, each entry the value of one Phone. *)

\* Index of the last entry equal to phone, 0 when there is none.
last_match(phones, phone) ==
    IF \E i \in 1..Len(phones) : phones[i] = phone
    THEN CHOOSE i \in 1..Len(phones) :
            /\ phones[i] = phone
            /\ \A j \in (i + 1)..Len(phones) : phones[j] # phone
    ELSE 0

\* Index of the first entry equal to phone, 0 when there is none: the
\* entry at which the loops over self.phones stop.
first_match(phones, phone) ==
    IF \E i \in 1..Len(phones) : phones[i] = phone
    THEN CHOOSE i \in 1..Len(phones) :
            /\ phones[i] = phone
            /\ \A j \in 1..(i - 1) : phones[j] # phone
    ELSE 0

\* self.phones.remove(p) for the entry p at index i.  Every Phone of the
\* list is an object of its own (made at main.py:62 or :84) and Phone
\* defines no __eq__, so list.remove finds p itself.
list_remove(phones, i) ==
    [j \in 1..(Len(phones) - 1) |-> IF j < i THEN phones[j] ELSE phones[j + 1]]

remove_phone_result(phones, phone) ==
    LET i == first_match(phones, phone)
    IN  IF i = 0 THEN phones ELSE list_remove(phones, i)

\* Phone(new_phone) built before the search for old_phone.
edit_phone_raises_eager(phones, old_phone, new_phone) == Phone_raises(new_phone)

\* edit_phone raises exactly when a match is found and Phone(new) raises.
edit_phone_raises(phones, old_phone, new_phone) ==
    first_match(phones, old_phone) # 0 /\ Phone_raises(new_phone)

\* The loop over self.phones without its break.
edit_every_match(phones, old_phone, new_phone) ==
    IF Phone_raises(new_phone)
    THEN phones
    ELSE [i \in 1..Len(phones) |->
            IF phones[i] = old_phone THEN new_phone ELSE phones[i]]

edit_phone_result(phones, old_phone, new_phone) ==
    LET i == first_match(phones, old_phone)
    IN  IF i = 0 \/ Phone_raises(new_phone)
        THEN phones
        ELSE [phones EXCEPT ![i] = new_phone]

\* The argument returned without the search.
find_phone_echo(phones, phone) == phone

find_phone_result(phones, phone) ==
    LET i == first_match(phones, phone)
    IN  IF i = 0 THEN <<>> ELSE phones[i]

---------------------------------------------------------------------------
(* The dict behind AddressBook: entries in insertion order. *)

None == 0

Keys(d) == {d[i].key : i \in 1..Len(d)}

key_index(d, k) ==
    IF k \in Keys(d)
    THEN CHOOSE i \in 1..Len(d) :
            d[i].key = k /\ \A j \in 1..(i - 1) : d[j].key # k
    ELSE 0

\* self.data.get(name)
dict_get(d, k) == IF key_index(d, k) = 0 THEN None ELSE d[key_index(d, k)].ref

\* A new entry added whether or not the key is there.
dict_append_item(d, k, v) == Append(d, [key |-> k, ref |-> v])

\* self.data[k] = v
dict_setitem(d, k, v) ==
    IF key_index(d, k) = 0
    THEN Append(d, [key |-> k, ref |-> v])
    ELSE [d EXCEPT ![key_index(d, k)].ref = v]

\* The newest entry dropped, whatever its key.
dict_popitem(d, k) == SubSeq(d, 1, Len(d) - 1)

\* del self.data[k]
dict_delitem(d, k) ==
    LET i == key_index(d, k)
    IN  [j \in 1..(Len(d) - 1) |-> IF j < i THEN d[j] ELSE d[j + 1]]

---------------------------------------------------------------------------
(* State. *)

Refs == 1..Len(heap)

\* The call made last and what it gave: the operation, the record it was
\* called on, its arguments, whether it raised ValueError, what it returned
\* (ret: a str, found: a Record or None), and the heap and the book's
\* entries as they were when the call began.
NoCall ==
    [op |-> "", ref |-> None, name |-> "", a |-> <<>>, b |-> <<>>,
     raised |-> FALSE, ret |-> <<>>, found |-> None,
     heap0 |-> <<>>, data0 |-> <<>>]

Call(op) == [NoCall EXCEPT !.op = op, !.heap0 = heap, !.data0 = data]

PhoneCall(op, r, a, b) == [Call(op) EXCEPT !.ref = r, !.a = a, !.b = b]

Init ==
    /\ heap = <<>>
    /\ data = <<>>
    /\ last = NoCall

\* RecordSpec starts from one constructed Record.
InitRecord ==
    /\ \E name \in Names : heap = <<[name |-> name, phones |-> <<>>]>>
    /\ data = <<>>
    /\ last = NoCall

---------------------------------------------------------------------------
(* Operations. *)

\* Phone(value)
Phone(value) ==
    /\ last' = [Call("Phone") EXCEPT
                   !.a = value,
                   !.raised = Phone_raises(value),
                   !.ret = IF Phone_raises(value) THEN <<>> ELSE value]
    /\ UNCHANGED <<heap, data>>

\* Record(name)
Record(name) ==
    IF Name_raises(name)
    THEN /\ last' = [Call("Record") EXCEPT !.name = name, !.raised = TRUE]
         /\ UNCHANGED <<heap, data>>
    ELSE /\ heap' = Append(heap, [name |-> name, phones |-> <<>>])
         /\ last' = [Call("Record") EXCEPT !.name = name, !.found = Len(heap) + 1]
         /\ UNCHANGED data

add_phone(r, phone) ==
    IF Phone_raises(phone)
    THEN /\ last' = [PhoneCall("add_phone", r, phone, <<>>) EXCEPT !.raised = TRUE]
         /\ UNCHANGED <<heap, data>>
    ELSE /\ heap' = [heap EXCEPT ![r].phones = Append(@, phone)]
         /\ last' = PhoneCall("add_phone", r, phone, <<>>)
         /\ UNCHANGED data

remove_phone(r, phone) ==
    /\ heap' = [heap EXCEPT ![r].phones = remove_phone_result(@, phone)]
    /\ last' = PhoneCall("remove_phone", r, phone, <<>>)
    /\ UNCHANGED data

edit_phone(r, old_phone, new_phone) ==
    /\ heap' = [heap EXCEPT ![r].phones = edit_phone_result(@, old_phone, new_phone)]
    /\ last' = [PhoneCall("edit_phone", r, old_phone, new_phone) EXCEPT
                   !.raised = edit_phone_raises(heap[r].phones, old_phone, new_phone)]
    /\ UNCHANGED data

find_phone(r, phone) ==
    /\ last' = [PhoneCall("find_phone", r, phone, <<>>) EXCEPT
                   !.ret = find_phone_result(heap[r].phones, phone)]
    /\ UNCHANGED <<heap, data>>

\* A copy of the record stored in place of the record.
add_record_copy(r) ==
    /\ heap' = Append(heap, heap[r])
    /\ data' = dict_setitem(data, heap[r].name, Len(heap) + 1)
    /\ last' = [Call("add_record") EXCEPT !.ref = r, !.name = heap[r].name]

add_record(r) ==
    /\ data' = dict_setitem(data, heap[r].name, r)
    /\ last' = [Call("add_record") EXCEPT !.ref = r, !.name = heap[r].name]
    /\ UNCHANGED heap

\* What find(name) returns.
find_result(d, name) == dict_get(d, name)

find(name) ==
    /\ last' = [Call("find") EXCEPT !.name = name, !.found = find_result(data, name)]
    /\ UNCHANGED <<heap, data>>

delete(name) ==
    /\ data' = IF name \in Keys(data) THEN dict_delitem(data, name) ELSE data
    /\ last' = [Call("delete") EXCEPT !.name = name]
    /\ UNCHANGED heap

---------------------------------------------------------------------------
(* Specifications. *)

RECURSIVE object_count(_)
\* The Record objects of h and the Phone objects they hold.
object_count(h) ==
    IF h = <<>>
    THEN 0
    ELSE 1 + Len(h[Len(h)].phones) + object_count(SubSeq(h, 1, Len(h) - 1))

Next ==
    \/ \E name \in NameInputs :
          (object_count(heap) < MaxObjects \/ Name_raises(name)) /\ Record(name)
    \/ \E r \in Refs, phone \in BookRawInputs :
          (object_count(heap) < MaxObjects \/ Phone_raises(phone)) /\ add_phone(r, phone)
    \/ \E r \in Refs, phone \in BookRawInputs : remove_phone(r, phone)
    \/ \E r \in Refs, old \in BookRawInputs, new \in BookRawInputs : edit_phone(r, old, new)
    \/ \E r \in Refs, phone \in BookRawInputs : find_phone(r, phone)
    \/ \E r \in Refs : add_record(r)
    \/ \E name \in NameInputs : find(name)
    \/ \E name \in NameInputs : delete(name)

Spec == Init /\ [][Next]_vars

NextRecord ==
    \/ \E value \in PhoneInputs : Phone(value)
    \/ \E r \in Refs, phone \in RawInputs :
          (Len(heap[r].phones) < MaxPhones \/ Phone_raises(phone)) /\ add_phone(r, phone)
    \/ \E r \in Refs, phone \in RawInputs : remove_phone(r, phone)
    \/ \E r \in Refs, old \in RawInputs, new \in RawInputs : edit_phone(r, old, new)
    \/ \E r \in Refs, phone \in RawInputs : find_phone(r, phone)

RecordSpec == InitRecord /\ [][NextRecord]_vars

---------------------------------------------------------------------------
(* What the claims speak of. *)

DecimalDigits == {"0", "1", "2", "3", "4", "5", "6", "7", "8", "9"}

\* Exactly 10 characters, each a decimal digit 0-9.
IsTenDecimalDigits(s) ==
    Len(s) = 10 /\ \A i \in 1..Len(s) : s[i] \in DecimalDigits

\* The phone sequence of the record of the last call, before and after it.
Before == last.heap0[last.ref].phones
Now == heap[last.ref].phones

Occurrences(phones, phone) ==
    Cardinality({i \in 1..Len(phones) : phones[i] = phone})

PhoneMutators == {"add_phone", "remove_phone", "edit_phone"}

\* The entries of d filed under a key other than k.
OtherEntries(d, k) == {d[i] : i \in {j \in 1..Len(d) : d[j].key # k}}

---------------------------------------------------------------------------
(* Phone *)

\* C1: Phone(s) succeeds, and renders as s, if and only if s is exactly 10
\* characters long and every character is a decimal digit 0-9; for every
\* other string it raises the validation error.
C1_PhoneIffTenDecimalDigits ==
    last.op = "Phone" =>
        /\ (~last.raised) <=> IsTenDecimalDigits(last.a)
        /\ (~last.raised) => last.ret = last.a

---------------------------------------------------------------------------
(* Record *)

\* C2: add_phone(raw) with a valid raw appends exactly one entry equal to
\* raw at the end, earlier entries unchanged, duplicates kept; with an
\* invalid raw it raises and the phone sequence is as it was.
C2_AddPhoneAppendsOrRaises ==
    last.op = "add_phone" =>
        IF IsTenDecimalDigits(last.a)
        THEN (~last.raised) /\ Now = Append(Before, last.a)
        ELSE last.raised /\ Now = Before

\* C3: remove_phone(raw) removes exactly the first entry equal to raw and
\* keeps every other entry, later duplicates included, in order; when no
\* entry equals raw it raises nothing and the sequence is as it was.
C3_RemoveFirstMatchOnly ==
    last.op = "remove_phone" =>
        /\ ~last.raised
        /\ IF \E i \in 1..Len(Before) : Before[i] = last.a
           THEN \E i \in 1..Len(Before) :
                   /\ Before[i] = last.a
                   /\ \A j \in 1..(i - 1) : Before[j] # last.a
                   /\ Len(Now) = Len(Before) - 1
                   /\ \A j \in 1..(i - 1) : Now[j] = Before[j]
                   /\ \A j \in i..Len(Now) : Now[j] = Before[j + 1]
           ELSE Now = Before

\* remove_phone(a) was called on <<a, x, a>> with x # a.
C3_Witness ==
    /\ last.op = "remove_phone"
    /\ Len(Before) = 3
    /\ Before[1] = last.a /\ Before[2] # last.a /\ Before[3] = last.a

\* C4: edit_phone(old, new) with old present and new a valid phone
\* replaces only the first entry equal to old, at the same index: the
\* length and every other entry are as they were, and so is the name.
C4_EditReplacesFirstMatchInPlace ==
    (/\ last.op = "edit_phone"
     /\ \E i \in 1..Len(Before) : Before[i] = last.a
     /\ IsTenDecimalDigits(last.b)) =>
        /\ ~last.raised
        /\ Len(Now) = Len(Before)
        /\ \E i \in 1..Len(Before) :
              /\ Before[i] = last.a
              /\ \A j \in 1..(i - 1) : Before[j] # last.a
              /\ Now[i] = last.b
              /\ \A j \in 1..Len(Before) : j # i => Now[j] = Before[j]
        /\ heap[last.ref].name = last.heap0[last.ref].name

\* edit_phone(a, b), b valid and not a, was called on <<a, x, a>> with
\* x # a.
C4_Witness ==
    /\ last.op = "edit_phone"
    /\ IsTenDecimalDigits(last.b) /\ last.b # last.a
    /\ Len(Before) = 3
    /\ Before[1] = last.a /\ Before[2] # last.a /\ Before[3] = last.a

\* C5: edit_phone(old, new) with no entry equal to old raises nothing, for
\* a valid and for an invalid new, and leaves the phone sequence as it was.
C5_EditOfMissingIsSilent ==
    (/\ last.op = "edit_phone"
     /\ \A i \in 1..Len(Before) : Before[i] # last.a) =>
        (~last.raised) /\ Now = Before

\* edit_phone(old, new) was called with old missing from a list that is
\* not empty and a new that Phone refuses.
C5_Witness ==
    /\ last.op = "edit_phone"
    /\ Before # <<>>
    /\ \A i \in 1..Len(Before) : Before[i] # last.a
    /\ ~IsTenDecimalDigits(last.b) /\ Phone_raises(last.b)

\* C6: for distinct valid a and b, after add_phone(a) on a record without
\* a (a is then the last entry and the only one equal to a) and
\* edit_phone(a, b), find_phone(b) gives b and find_phone(a) gives the
\* empty string; find_phone gives the entry it finds or the empty string
\* and never changes the phone sequence.
C6_FindAfterAddThenEdit ==
    /\ (/\ last.op = "edit_phone"
        /\ IsTenDecimalDigits(last.a) /\ IsTenDecimalDigits(last.b)
        /\ last.a # last.b
        /\ Before # <<>>
        /\ Occurrences(Before, last.a) = 1) =>
           (/\ Before[Len(Before)] = last.a =>
                 /\ find_phone_result(Now, last.b) = last.b
                 /\ find_phone_result(Now, last.a) = <<>>)
    /\ last.op = "find_phone" =>
           /\ ~last.raised
           /\ Now = Before
           /\ last.ret = IF \E i \in 1..Len(Now) : Now[i] = last.a
                         THEN last.a
                         ELSE <<>>

\* edit_phone(a, b) was called, a and b valid and distinct, on a list of
\* two entries whose last one was the only a.
C6_Witness ==
    /\ last.op = "edit_phone"
    /\ IsTenDecimalDigits(last.a) /\ IsTenDecimalDigits(last.b)
    /\ last.a # last.b
    /\ Len(Before) = 2
    /\ Before[1] # last.a /\ Before[2] = last.a
    /\ ~last.raised

---------------------------------------------------------------------------
(* AddressBook *)

\* C7: add_record with a record whose name is already a key leaves exactly
\* one entry under that name, holding the record just given; the entries
\* under every other name are as they were; and no name ever has two
\* entries.
C7_AddRecordOverwrites ==
    /\ \A i, j \in 1..Len(data) : data[i].key = data[j].key => i = j
    /\ last.op = "add_record" =>
          /\ {data[i] : i \in {j \in 1..Len(data) : data[j].key = heap[last.ref].name}}
                = {[key |-> heap[last.ref].name, ref |-> last.ref]}
          /\ Cardinality({j \in 1..Len(data) : data[j].key = heap[last.ref].name}) = 1
          /\ OtherEntries(data, heap[last.ref].name)
                = OtherEntries(last.data0, heap[last.ref].name)

\* add_record was called with a record whose name was filed for another
\* record, while an entry under another name was in the book.
C7_Witness ==
    /\ last.op = "add_record"
    /\ \E i \in 1..Len(last.data0) :
          /\ last.data0[i].key = heap[last.ref].name
          /\ last.data0[i].ref # last.ref
    /\ OtherEntries(last.data0, heap[last.ref].name) # {}

\* C8: delete(name) removes the entry of name, so that find(name) then
\* gives None, and leaves every other entry as it was; with name missing it
\* raises nothing and the mapping is as it was; find of a missing name
\* gives None, raises nothing and changes nothing.
C8_DeleteRemovesOnlyThatEntry ==
    /\ last.op = "delete" =>
          /\ ~last.raised
          /\ data = SelectSeq(last.data0, LAMBDA e : e.key # last.name)
          /\ dict_get(data, last.name) = None
          /\ heap = last.heap0
    /\ last.op = "find" =>
          /\ ~last.raised
          /\ data = last.data0 /\ heap = last.heap0
          /\ (\A i \in 1..Len(data) : data[i].key # last.name) => last.found = None

\* delete(name) was called with name filed and another entry in the book.
C8_Witness ==
    /\ last.op = "delete"
    /\ \E i \in 1..Len(last.data0) : last.data0[i].key = last.name
    /\ data # <<>>

\* C9: the book holds the Record it was given, not a copy: add_record(r)
\* files r itself; a phone operation on a record filed in the book leaves
\* it filed, so that what find gives afterwards is the record the
\* operation was called on, with the phones the operation left; and only
\* add_record and delete change what is filed.
C9_BookHoldsTheInstance ==
    /\ last.op = "add_record" =>
          /\ find_result(data, heap[last.ref].name) = last.ref
          /\ heap = last.heap0
    /\ last.op \in PhoneMutators =>
          \A n \in Names :
             find_result(last.data0, n) = last.ref =>
                /\ find_result(data, n) = last.ref
                /\ heap[find_result(data, n)].phones = Now
    /\ last.op \notin {"add_record", "delete"} => data = last.data0

\* A phone operation changed the phones of a record that find gives.
C9_Witness ==
    /\ last.op \in PhoneMutators
    /\ Now # Before
    /\ \E n \in Names : find_result(data, n) = last.ref

\* C10: after any calls, failed ones included, every entry of every phone
\* sequence is a string of exactly 10 decimal digits, every record of the
\* book is filed under its own name, and a call that raised left the phone
\* sequence as it was.
C10_PhonesAreTenDecimalDigits ==
    /\ \A r \in Refs : \A i \in 1..Len(heap[r].phones) :
          IsTenDecimalDigits(heap[r].phones[i])
    /\ \A i \in 1..Len(data) : heap[data[i].ref].name = data[i].key
    /\ (last.raised /\ last.op \in PhoneMutators) => Now = Before

====
